---- MODULE Spec2Model ----
(***************************************************************************)
(* DialogueKit: the dialogue state tracker                                 *)
(* (dialoguekit/dialogue_manager) and the session table of the platform    *)
(* (dialoguekit/platforms/platform.py).                                    *)
(***************************************************************************)
EXTENDS Integers, Sequences, FiniteSets, TLC

VARIABLES
    trackers,   \* tracker id -> its _dialogue_state (DOMAIN = trackers constructed)
    calls,      \* tracker id -> the utterances passed to update, in call order
    born,       \* tracker id -> TRUE iff some update call preceded its construction
    active_connections, \* Platform._active_connections: user id -> connector reference
    connectors,         \* the DialogueConnector objects constructed so far, by reference
    annotation_store,   \* the feedback handed to connectors (out-of-band store)
    result,             \* the last platform operation, its id and how it ended
    nops,               \* number of platform operations performed
    handlers,           \* the event handlers started so far, each with its position
    evaluator,          \* the Evaluator: its dialogues, reward_config and memo
    returned,           \* the last Evaluator call and what it returned
    exchange,           \* the turn exchange of one inbound event: where it stands
    annotated_dialogs,  \* the dialogue log template extraction is given
    response_templates  \* what extract_utterance_template returned

trackerVars == <<trackers, calls, born>>
platformVars == <<active_connections, connectors, annotation_store, result, nops>>
raceVars == <<handlers>>
evaluatorVars == <<evaluator, returned>>
exchangeVars == <<exchange>>
templateVars == <<annotated_dialogs, response_templates>>
vars == <<trackers, calls, born,
          active_connections, connectors, annotation_store, result, nops,
          handlers, evaluator, returned, exchange,
          annotated_dialogs, response_templates>>

----------------------------------------------------------------------------
(* Bounds of the model. *)

\* Total number of update calls over all trackers.
MaxUpdates == 3

\* Total number of platform operations (transport events).
MaxOps == 4

\* Number of operations applied to one connector.
MaxConnectorOps == 5

\* Number of transport events whose handlers may run concurrently.
MaxEvents == 3

\* Number of dialogue records in the batch of an Evaluator.
MaxBatch == 2

\* Depth of nested receive_utterance calls the interpreter allows, and the
\* number of inbound events a connector is given.
MaxChain == 4
MaxInbound == 3

\* Number of turns in a conversation of an annotated dialogue file.
MaxTurns == 2

----------------------------------------------------------------------------
(* Values. *)

\* Optional[X]: None is the empty sequence, a present value x is <<x>>.
None == <<>>
Some(x) == <<x>>

\* No Evaluator has been constructed.
NoEvaluator == evaluator = None /\ returned = None

\* No turn exchange is under way, and no template extraction was asked for.
NoExchange == exchange = None
NoTemplates == annotated_dialogs = None /\ response_templates = None

\* DialogueParticipant (an Enum: AGENT = 0, USER = 1).
AGENT == "AGENT"
USER == "USER"
DialogueParticipant == {AGENT, USER}

\* Intent: equality is by label, so an intent is its label.
Intent(label) == Some(label)
UserIntents == {None, Intent("greeting"), Intent("ask_health")}
AgentIntents == {None, Intent("offer_help")}

\* Annotation(slot, value): a dataclass, equal by both fields.
Annotation(slot, value) == [slot |-> slot, value |-> value]
SlotNames == {"name", "genre"}

\* The annotation lists an utterance may carry: none, two slots in one
\* utterance, and one slot twice with different values.
AnnotationLists ==
    { <<>>,
      <<Annotation("name", "John"), Annotation("genre", "action")>>,
      <<Annotation("name", "Mary"), Annotation("name", "John")>> }

\* AnnotatedUtterance(text, participant, intent, annotations).
AnnotatedUtterance(text, participant, intent, annotations) ==
    [text |-> text, participant |-> participant, intent |-> intent,
     annotations |-> annotations]

\* The utterances passed to update: USER utterances, and AGENT utterances
\* that may carry an intent and annotations too.
UserUtterances ==
    { AnnotatedUtterance("Hello", USER, i, a) :
        i \in UserIntents, a \in AnnotationLists }
AgentUtterances ==
    { AnnotatedUtterance("Hi, how can I assist you?", AGENT, i, a) :
        i \in AgentIntents,
        a \in {<<>>, <<Annotation("name", "John"),
                       Annotation("genre", "action")>>} }
Utterances == UserUtterances \cup AgentUtterances

\* The tracker objects a program may construct.
TrackerIds == {"t1", "t2"}

----------------------------------------------------------------------------
(* DialogueState and DialogueStateTracker. *)

\* DialogueState(): every field from its default (factory); slots is a
\* defaultdict(list) with no key yet.
DialogueState ==
    [history |-> <<>>, last_user_intent |-> None, slots |-> <<>>,
     turn_count |-> 0]

\* slots[a.slot] = [a]: the annotation replaces what the slot held.
AppendAnnotation_Overwrite(slots, a) ==
    IF a.slot \in DOMAIN slots
    THEN [slots EXCEPT ![a.slot] = <<a>>]
    ELSE slots @@ (a.slot :> <<a>>)

\* slots[annotation.slot].append(annotation) on a defaultdict(list): a
\* missing key is created with an empty list first.
AppendAnnotation(slots, a) ==
    IF a.slot \in DOMAIN slots
    THEN [slots EXCEPT ![a.slot] = Append(@, a)]
    ELSE slots @@ (a.slot :> <<a>>)

\* for annotation in annotated_utterance.annotations: ...
RECURSIVE AppendAnnotations(_, _)
AppendAnnotations(slots, annotations) ==
    IF annotations = <<>>
    THEN slots
    ELSE AppendAnnotations(AppendAnnotation(slots, Head(annotations)),
                           Tail(annotations))

\* update without the participant check: every utterance counts as a turn.
update_NoParticipantCheck(state, u) ==
    [state EXCEPT !.history = Append(@, u),
                  !.last_user_intent = u.intent,
                  !.slots = AppendAnnotations(@, u.annotations),
                  !.turn_count = @ + 1]

\* update that inserts the utterance at the front of history.
update_Prepend(state, u) ==
    LET appended == [state EXCEPT !.history = <<u>> \o @] IN
    IF u.participant # USER
    THEN appended
    ELSE [appended EXCEPT !.last_user_intent = u.intent,
                          !.slots = AppendAnnotations(@, u.annotations),
                          !.turn_count = @ + 1]

\* update that keeps the previous intent when the utterance has none.
update_KeepIntentOnNone(state, u) ==
    LET appended == [state EXCEPT !.history = Append(@, u)] IN
    IF u.participant # USER
    THEN appended
    ELSE [appended EXCEPT !.last_user_intent =
                              IF u.intent = None THEN @ ELSE u.intent,
                          !.slots = AppendAnnotations(@, u.annotations),
                          !.turn_count = @ + 1]

\* update that returns early only after recording the intent.
update_IntentBeforeCheck(state, u) ==
    LET appended == [state EXCEPT !.history = Append(@, u),
                                  !.last_user_intent = u.intent] IN
    IF u.participant # USER
    THEN appended
    ELSE [appended EXCEPT !.slots = AppendAnnotations(@, u.annotations),
                          !.turn_count = @ + 1]

\* DialogueStateTracker.update(annotated_utterance).
update(state, u) ==
    LET appended == [state EXCEPT !.history = Append(@, u)] IN
    IF u.participant # USER
    THEN appended
    ELSE [appended EXCEPT !.last_user_intent = u.intent,
                          !.slots = AppendAnnotations(@, u.annotations),
                          !.turn_count = @ + 1]

----------------------------------------------------------------------------
(* Python dictionaries, as Platform uses them. *)

\* d[k] = v
DictSet(d, k, v) == [x \in DOMAIN d \cup {k} |-> IF x = k THEN v ELSE d[x]]

\* d.get(k): None for a missing key.
DictGet(d, k) == IF k \in DOMAIN d THEN Some(d[k]) ELSE None

\* d without k, as d.pop(k) leaves it.
DictRemove(d, k) == [x \in DOMAIN d \ {k} |-> d[x]]

----------------------------------------------------------------------------
(* The DialogueConnector of a session. *)

CREATED == "CREATED"
ACTIVE == "ACTIVE"
CLOSED == "CLOSED"

\* User(user_id) and the agent of get_new_agent(user_id); obj is the
\* identity of the objects one connect call constructs.
User(user_id, obj) == [id |-> user_id, obj |-> obj]

\* get_new_agent that hands every session the one agent of the platform.
get_new_agent_Shared(user_id, obj) == [id |-> "Agent", user_id |-> "", obj |-> 0]

get_new_agent(user_id, obj) == [id |-> "Agent", user_id |-> user_id, obj |-> obj]

\* DialogueConnector(agent=..., user=..., platform=self)
DialogueConnector(agent, user) ==
    [agent |-> agent, user |-> user, state |-> CREATED,
     dialogue_state |-> DialogueState]

\* What the participants of a session say.
OpeningUtterance == AnnotatedUtterance("welcome", AGENT, None, <<>>)
AgentReplies == {None, Some(AnnotatedUtterance("reply", AGENT, None, <<>>))}
Texts == {"hi"}
UtteranceIds == {"u1"}
FeedbackValues == {1}

\* connector.start(): CREATED -> ACTIVE, and the agent produces its opening
\* utterance, which goes to the dialogue state.
ConnectorStart(c) ==
    IF c.state = CLOSED
    THEN [connector |-> c, outcome |-> "SessionClosedError"]
    ELSE [connector |->
            [c EXCEPT !.state = ACTIVE,
                      !.dialogue_state = update(@, OpeningUtterance)],
          outcome |-> "ok"]

\* close() that reopens a connector closed before (a toggle).
ConnectorClose_Toggle(c) ==
    [c EXCEPT !.state = IF @ = CLOSED THEN ACTIVE ELSE CLOSED]

\* connector.close(): CLOSED from any state.
ConnectorClose(c) == [c EXCEPT !.state = CLOSED]

\* An inbound utterance that is processed whatever the state.
ConnectorUserUtterance_NoStateCheck(c, u, reply) ==
    LET heard == update(c.dialogue_state, u) IN
    [connector |->
       [c EXCEPT !.dialogue_state =
           IF reply = None THEN heard ELSE update(heard, reply[1])],
     outcome |-> "ok"]

\* An utterance of the user reaches the connector: it goes to the dialogue
\* state and to the agent, whose reply (if any) goes to the dialogue state.
ConnectorUserUtterance(c, u, reply) ==
    IF c.state = CLOSED
    THEN [connector |-> c, outcome |-> "SessionClosedError"]
    ELSE LET heard == update(c.dialogue_state, u) IN
         [connector |->
            [c EXCEPT !.dialogue_state =
                IF reply = None THEN heard ELSE update(heard, reply[1])],
          outcome |-> "ok"]

\* connector.handle_feedback(utterance_id, value): the rating goes to the
\* out-of-band store; the dialogue state is not touched.
ConnectorHandleFeedback(c) ==
    IF c.state = CLOSED THEN "SessionClosedError" ELSE "ok"

\* user.handle_input(text): the text becomes a USER utterance.
handle_input(text) == AnnotatedUtterance(text, USER, None, <<>>)

----------------------------------------------------------------------------
(* Platform: the session table and the operations of the transport. *)

UserIds == {"a", "b"}

\* Where connect may raise: nowhere, in the agent class's constructor, in
\* the connector's constructor, or in start() (the agent's opening).
Faults == {"none", "get_new_agent", "DialogueConnector", "start"}

Outcome(op, id, outcome) == [op |-> op, id |-> id, outcome |-> outcome]

PlatformIdle ==
    /\ active_connections = <<>>
    /\ connectors = <<>>
    /\ annotation_store = {}
    /\ result = Outcome("__init__", "", "ok")
    /\ nops = 0

PlatformInit ==
    /\ PlatformIdle
    /\ handlers = <<>>
    /\ NoEvaluator
    /\ NoExchange
    /\ NoTemplates
    /\ trackers = <<>>
    /\ calls = <<>>
    /\ born = <<>>

\* Platform.connect(user_id)
connect(user_id, fault) ==
    /\ nops < MaxOps
    /\ nops' = nops + 1
    /\ UNCHANGED annotation_store
    /\ IF fault \in {"get_new_agent", "DialogueConnector"}
       THEN \* raised before the assignment to the table
            /\ UNCHANGED <<active_connections, connectors>>
            /\ result' = Outcome("connect", user_id, "AgentError")
       ELSE LET ref == Len(connectors) + 1
                new == DialogueConnector(get_new_agent(user_id, ref),
                                         User(user_id, ref))
                started == ConnectorStart(new)
            IN  /\ active_connections' = DictSet(active_connections, user_id, ref)
                /\ IF fault = "start"
                   THEN \* start() raised, before or after the transition
                        /\ \E st \in {CREATED, ACTIVE} :
                             connectors' =
                               Append(connectors, [new EXCEPT !.state = st])
                        /\ result' = Outcome("connect", user_id, "AgentError")
                   ELSE /\ connectors' = Append(connectors, started.connector)
                        /\ result' = Outcome("connect", user_id, started.outcome)

\* Platform.disconnect(user_id)
disconnect(user_id) ==
    /\ nops < MaxOps
    /\ nops' = nops + 1
    /\ UNCHANGED annotation_store
    /\ IF user_id \notin DOMAIN active_connections
       THEN \* dict.pop of a missing key
            /\ UNCHANGED <<active_connections, connectors>>
            /\ result' = Outcome("disconnect", user_id, "KeyError")
       ELSE LET ref == active_connections[user_id] IN
            /\ active_connections' = DictRemove(active_connections, user_id)
            /\ connectors' =
                 [connectors EXCEPT ![ref] = ConnectorClose(@)]
            /\ result' = Outcome("disconnect", user_id, "ok")

\* Platform.message(user_id, text)
message(user_id, text, reply) ==
    /\ nops < MaxOps
    /\ nops' = nops + 1
    /\ UNCHANGED <<active_connections, annotation_store>>
    /\ LET dc == DictGet(active_connections, user_id) IN
       IF dc = None
       THEN \* get_user: None has no attribute user
            /\ UNCHANGED connectors
            /\ result' = Outcome("message", user_id, "AttributeError")
       ELSE LET heard == ConnectorUserUtterance(connectors[dc[1]],
                                                handle_input(text), reply)
            IN  /\ connectors' = [connectors EXCEPT ![dc[1]] = heard.connector]
                /\ result' = Outcome("message", user_id, heard.outcome)

\* feedback that takes the connector out of the table (pop for get).
feedback_Pop(user_id, utterance_id, value) ==
    /\ nops < MaxOps
    /\ nops' = nops + 1
    /\ UNCHANGED connectors
    /\ LET dc == DictGet(active_connections, user_id) IN
       IF dc = None
       THEN /\ UNCHANGED <<active_connections, annotation_store>>
            /\ result' = Outcome("feedback", user_id, "KeyError")
       ELSE LET handled == ConnectorHandleFeedback(connectors[dc[1]]) IN
            /\ active_connections' = DictRemove(active_connections, user_id)
            /\ annotation_store' =
                 IF handled = "ok"
                 THEN annotation_store \cup {<<dc[1], utterance_id, value>>}
                 ELSE annotation_store
            /\ result' = Outcome("feedback", user_id, handled)

\* Platform.feedback(user_id, utterance_id, value)
feedback(user_id, utterance_id, value) ==
    /\ nops < MaxOps
    /\ nops' = nops + 1
    /\ UNCHANGED <<active_connections, connectors>>
    /\ LET dc == DictGet(active_connections, user_id) IN
       IF dc = None
       THEN \* None has no attribute handle_feedback
            /\ UNCHANGED annotation_store
            /\ result' = Outcome("feedback", user_id, "AttributeError")
       ELSE LET handled == ConnectorHandleFeedback(connectors[dc[1]]) IN
            /\ annotation_store' =
                 IF handled = "ok"
                 THEN annotation_store \cup {<<dc[1], utterance_id, value>>}
                 ELSE annotation_store
            /\ result' = Outcome("feedback", user_id, handled)

\* ChatNamespace.on_start_conversation(data)
on_start_conversation(sid) ==
    /\ nops < MaxOps
    /\ nops' = nops + 1
    /\ UNCHANGED <<active_connections, annotation_store>>
    /\ LET dc == DictGet(active_connections, sid) IN
       IF dc = None
       THEN \* if dc: is false, nothing is started
            /\ UNCHANGED connectors
            /\ result' = Outcome("start_conversation", sid, "ok")
       ELSE LET started == ConnectorStart(connectors[dc[1]]) IN
            /\ connectors' = [connectors EXCEPT ![dc[1]] = started.connector]
            /\ result' = Outcome("start_conversation", sid, started.outcome)

PlatformNext ==
    \/ \E id \in UserIds, fault \in Faults :
         connect(id, fault) /\ UNCHANGED <<trackerVars, raceVars, evaluatorVars, exchangeVars, templateVars>>
    \/ \E id \in UserIds : disconnect(id) /\ UNCHANGED <<trackerVars, raceVars, evaluatorVars, exchangeVars, templateVars>>
    \/ \E id \in UserIds, text \in Texts, reply \in AgentReplies :
         message(id, text, reply) /\ UNCHANGED <<trackerVars, raceVars, evaluatorVars, exchangeVars, templateVars>>
    \/ \E id \in UserIds, u \in UtteranceIds, v \in FeedbackValues :
         feedback(id, u, v) /\ UNCHANGED <<trackerVars, raceVars, evaluatorVars, exchangeVars, templateVars>>
    \/ \E id \in UserIds : on_start_conversation(id) /\ UNCHANGED <<trackerVars, raceVars, evaluatorVars, exchangeVars, templateVars>>

PlatformSpec == PlatformInit /\ [][PlatformNext]_vars

----------------------------------------------------------------------------
(* One DialogueConnector, driven through its own operations. *)

ConnectorInit ==
    /\ active_connections = <<>>
    /\ connectors = <<DialogueConnector(get_new_agent("a", 1), User("a", 1))>>
    /\ annotation_store = {}
    /\ result = Outcome("__init__", "a", "ok")
    /\ nops = 0
    /\ handlers = <<>>
    /\ NoEvaluator
    /\ NoExchange
    /\ NoTemplates
    /\ trackers = <<>>
    /\ calls = <<>>
    /\ born = <<>>

\* connector.start()
connector_start ==
    /\ nops < MaxConnectorOps
    /\ nops' = nops + 1
    /\ LET started == ConnectorStart(connectors[1]) IN
       /\ connectors' = [connectors EXCEPT ![1] = started.connector]
       /\ result' = Outcome("start", "a", started.outcome)
    /\ UNCHANGED <<active_connections, annotation_store, trackerVars, raceVars, evaluatorVars, exchangeVars, templateVars>>

\* connector.close()
connector_close ==
    /\ nops < MaxConnectorOps
    /\ nops' = nops + 1
    /\ connectors' = [connectors EXCEPT ![1] = ConnectorClose(@)]
    /\ result' = Outcome("close", "a", "ok")
    /\ UNCHANGED <<active_connections, annotation_store, trackerVars, raceVars, evaluatorVars, exchangeVars, templateVars>>

\* An utterance of the user arrives at the connector.
connector_utterance(text, reply) ==
    /\ nops < MaxConnectorOps
    /\ nops' = nops + 1
    /\ LET heard == ConnectorUserUtterance(connectors[1], handle_input(text),
                                           reply) IN
       /\ connectors' = [connectors EXCEPT ![1] = heard.connector]
       /\ result' = Outcome("utterance", "a", heard.outcome)
    /\ UNCHANGED <<active_connections, annotation_store, trackerVars, raceVars, evaluatorVars, exchangeVars, templateVars>>

\* connector.handle_feedback(utterance_id, value)
connector_feedback(utterance_id, value) ==
    /\ nops < MaxConnectorOps
    /\ nops' = nops + 1
    /\ LET handled == ConnectorHandleFeedback(connectors[1]) IN
       /\ annotation_store' =
            IF handled = "ok"
            THEN annotation_store \cup {<<1, utterance_id, value>>}
            ELSE annotation_store
       /\ result' = Outcome("feedback", "a", handled)
    /\ UNCHANGED <<active_connections, connectors, trackerVars, raceVars, evaluatorVars, exchangeVars, templateVars>>

ConnectorNext ==
    \/ connector_start
    \/ connector_close
    \/ \E text \in Texts, reply \in AgentReplies : connector_utterance(text, reply)
    \/ \E u \in UtteranceIds, v \in FeedbackValues : connector_feedback(u, v)

ConnectorSpec == ConnectorInit /\ [][ConnectorNext]_vars

----------------------------------------------------------------------------
(* The transport's event handlers running concurrently: every handler is a  *)
(* thread of its own, and a step is one call of Platform's code.            *)

\* The text of the message of handler h, and of the agent's reply to it.
MessageText(h) == "m" \o ToString(h)
ReplyText(h) == "re:m" \o ToString(h)

\* An utterance of the agent reaches the connector and goes to the
\* dialogue state.
ConnectorAgentUtterance(c, u) ==
    IF c.state = CLOSED
    THEN [connector |-> c, outcome |-> "SessionClosedError"]
    ELSE [connector |-> [c EXCEPT !.dialogue_state = update(@, u)],
          outcome |-> "ok"]

Handler(op, id, pc, ref, outcome) ==
    [op |-> op, id |-> id, pc |-> pc, ref |-> ref, outcome |-> outcome]

Finish(h, outcome) ==
    /\ handlers' = [handlers EXCEPT ![h].pc = "done", ![h].outcome = outcome]
    /\ result' = Outcome(handlers[h].op, handlers[h].id, outcome)

RaceInit ==
    /\ PlatformIdle
    /\ handlers = <<>>
    /\ NoEvaluator
    /\ NoExchange
    /\ NoTemplates
    /\ trackers = <<>>
    /\ calls = <<>>
    /\ born = <<>>

\* on_connect: Platform.connect for a sid that has no session.
race_connect(sid) ==
    /\ sid \notin DOMAIN active_connections
    /\ connect(sid, "none")
    /\ UNCHANGED <<handlers, trackerVars, evaluatorVars, exchangeVars, templateVars>>

\* on_message, up to the lookup self.get_user(user_id).
message_get_user(user_id) ==
    /\ Len(handlers) < MaxEvents
    /\ LET dc == DictGet(active_connections, user_id) IN
       IF dc = None
       THEN /\ handlers' = Append(handlers,
                 Handler("message", user_id, "done", 0, "AttributeError"))
            /\ result' = Outcome("message", user_id, "AttributeError")
       ELSE /\ handlers' = Append(handlers,
                 Handler("message", user_id, "handle_input", dc[1], "running"))
            /\ UNCHANGED result
    /\ UNCHANGED <<active_connections, connectors, annotation_store, nops,
                   trackerVars, evaluatorVars, exchangeVars, templateVars>>

\* .handle_input(text): the user's utterance reaches the connector and is
\* handed to the agent.
message_handle_input(h) ==
    /\ h \in DOMAIN handlers
    /\ handlers[h].pc = "handle_input"
    /\ LET ref == handlers[h].ref
           heard == ConnectorUserUtterance(connectors[ref],
                                           handle_input(MessageText(h)), None)
       IN  IF heard.outcome = "ok"
           THEN /\ connectors' = [connectors EXCEPT ![ref] = heard.connector]
                /\ handlers' = [handlers EXCEPT ![h].pc = "receive_utterance"]
                /\ UNCHANGED result
           ELSE /\ UNCHANGED connectors
                /\ Finish(h, heard.outcome)
    /\ UNCHANGED <<active_connections, annotation_store, nops, trackerVars, evaluatorVars, exchangeVars, templateVars>>

\* agent.receive_utterance(utterance): the agent answers or not; its answer
\* reaches the connector.
message_receive_utterance(h, responds) ==
    /\ h \in DOMAIN handlers
    /\ handlers[h].pc = "receive_utterance"
    /\ LET ref == handlers[h].ref
           said == ConnectorAgentUtterance(connectors[ref],
                     AnnotatedUtterance(ReplyText(h), AGENT, None, <<>>))
       IN  IF responds
           THEN /\ connectors' = [connectors EXCEPT ![ref] = said.connector]
                /\ Finish(h, said.outcome)
           ELSE /\ UNCHANGED connectors
                /\ Finish(h, "ok")
    /\ UNCHANGED <<active_connections, annotation_store, nops, trackerVars, evaluatorVars, exchangeVars, templateVars>>

\* on_disconnect, up to self._active_connections.pop(user_id).
disconnect_pop(user_id) ==
    /\ Len(handlers) < MaxEvents
    /\ IF user_id \notin DOMAIN active_connections
       THEN /\ handlers' = Append(handlers,
                 Handler("disconnect", user_id, "done", 0, "KeyError"))
            /\ result' = Outcome("disconnect", user_id, "KeyError")
            /\ UNCHANGED active_connections
       ELSE /\ handlers' = Append(handlers,
                 Handler("disconnect", user_id, "close",
                         active_connections[user_id], "running"))
            /\ active_connections' = DictRemove(active_connections, user_id)
            /\ UNCHANGED result
    /\ UNCHANGED <<connectors, annotation_store, nops, trackerVars, evaluatorVars, exchangeVars, templateVars>>

\* dialogue_connector.close()
disconnect_close(h) ==
    /\ h \in DOMAIN handlers
    /\ handlers[h].pc = "close"
    /\ connectors' = [connectors EXCEPT ![handlers[h].ref] = ConnectorClose(@)]
    /\ Finish(h, "ok")
    /\ UNCHANGED <<active_connections, annotation_store, nops, trackerVars, evaluatorVars, exchangeVars, templateVars>>

\* on_feedback, up to the lookup self.get_dialogue_connector(user_id).
feedback_get_dialogue_connector(user_id) ==
    /\ Len(handlers) < MaxEvents
    /\ LET dc == DictGet(active_connections, user_id) IN
       IF dc = None
       THEN /\ handlers' = Append(handlers,
                 Handler("feedback", user_id, "done", 0, "AttributeError"))
            /\ result' = Outcome("feedback", user_id, "AttributeError")
       ELSE /\ handlers' = Append(handlers,
                 Handler("feedback", user_id, "handle_feedback", dc[1], "running"))
            /\ UNCHANGED result
    /\ UNCHANGED <<active_connections, connectors, annotation_store, nops,
                   trackerVars, evaluatorVars, exchangeVars, templateVars>>

\* .handle_feedback(utterance_id, value)
feedback_handle_feedback(h, utterance_id, value) ==
    /\ h \in DOMAIN handlers
    /\ handlers[h].pc = "handle_feedback"
    /\ LET handled == ConnectorHandleFeedback(connectors[handlers[h].ref]) IN
       /\ annotation_store' =
            IF handled = "ok"
            THEN annotation_store \cup {<<handlers[h].ref, utterance_id, value>>}
            ELSE annotation_store
       /\ Finish(h, handled)
    /\ UNCHANGED <<active_connections, connectors, nops, trackerVars, evaluatorVars, exchangeVars, templateVars>>

RaceNext ==
    \/ \E id \in UserIds : race_connect(id)
    \/ \E id \in UserIds : message_get_user(id)
    \/ \E h \in 1..MaxEvents : message_handle_input(h)
    \/ \E h \in 1..MaxEvents, responds \in BOOLEAN :
         message_receive_utterance(h, responds)
    \/ \E id \in UserIds : disconnect_pop(id)
    \/ \E h \in 1..MaxEvents : disconnect_close(h)
    \/ \E id \in UserIds : feedback_get_dialogue_connector(id)
    \/ \E h \in 1..MaxEvents, u \in UtteranceIds, v \in FeedbackValues :
         feedback_handle_feedback(h, u, v)

RaceSpec == RaceInit /\ [][RaceNext]_vars

----------------------------------------------------------------------------
(* The Evaluator: metrics over a batch of completed dialogue records. *)

\* A turn object of a dialogue log: participant and optional intent.
Turn(participant, intent) == [participant |-> participant, intent |-> intent]

\* The conversations of the dialogue records an evaluator is loaded with: a
\* lone USER utterance, a lone AGENT utterance without a credited intent, a
\* USER utterance with its reply, a conversation that repeats intents and
\* leaves utterances unmatched, and one with an utterance without intent.
Conversations ==
    { <<Turn(USER, Intent("DISCLOSE"))>>,
      <<Turn(AGENT, Intent("ELICIT"))>>,
      <<Turn(USER, Intent("DISCLOSE")), Turn(AGENT, Intent("INQUIRE"))>>,
      <<Turn(AGENT, Intent("ELICIT")), Turn(USER, Intent("DISCLOSE")),
        Turn(AGENT, Intent("ELICIT")), Turn(USER, Intent("DISCLOSE"))>>,
      <<Turn(USER, Intent("NAVIGATE")), Turn(USER, None),
        Turn(AGENT, Intent("INQUIRE"))>> }

DialogueRecord(conversation) == [conversation |-> conversation]

\* The batches of at least one and at most MaxBatch records.
Batches ==
    UNION { [1..n -> {DialogueRecord(c) : c \in Conversations}] :
              n \in 1..MaxBatch }

\* A reward configuration.
RewardConfig(full_set_points, intents, repeat_penalty, cost) ==
    [full_set_points |-> full_set_points, intents |-> intents,
     repeat_penalty |-> repeat_penalty, cost |-> cost]

\* The configuration of the tests, and one whose repeat penalty and cost
\* exceed the points of the intents, one of them negative.
RewardConfigs ==
    { RewardConfig(20, ("DISCLOSE" :> 4 @@ "REVEAL.REFINE" :> 4
                        @@ "INQUIRE" :> 4 @@ "NAVIGATE" :> 4), 1, 1),
      RewardConfig(20, ("DISCLOSE" :> 1 @@ "INQUIRE" :> 1
                        @@ "NAVIGATE" :> -3), 5, 5) }

\* The scores a satisfaction classifier returns.
Scores == 1..5

\* A rational number in lowest terms; the model's stand-in for a float.
RECURSIVE GCD(_, _)
GCD(a, b) == IF b = 0 THEN a ELSE GCD(b, a % b)

Fraction(num, den) ==
    [num |-> num \div GCD(num, den), den |-> den \div GCD(num, den)]

Zero == [num |-> 0, den |-> 1]

\* The number of turns of a conversation: a USER utterance together with the
\* AGENT reply that follows it, or, if unmatched, the lone utterance.
RECURSIVE Turns(_)
Turns(conversation) ==
    IF conversation = <<>> THEN 0
    ELSE IF /\ Len(conversation) >= 2
            /\ conversation[1].participant = USER
            /\ conversation[2].participant = AGENT
         THEN 1 + Turns(Tail(Tail(conversation)))
         ELSE 1 + Turns(Tail(conversation))

\* The sum of f over the indices 1..n.
RECURSIVE SumTo(_, _)
SumTo(f, n) == IF n = 0 THEN 0 ELSE f[n] + SumTo(f, n - 1)

\* The sum of f over the finite set S.
RECURSIVE SumOver(_, _)
SumOver(f, S) ==
    IF S = {} THEN 0
    ELSE LET x == CHOOSE y \in S : TRUE
         IN f[x] + SumOver(f, S \ {x})

\* The turn counts of the records of a batch, in record order.
TurnCounts(dialogues) ==
    [i \in 1..Len(dialogues) |-> Turns(dialogues[i].conversation)]

\* The average, over all records, of the number of turns.
AvgTurns(dialogues) ==
    Fraction(SumTo(TurnCounts(dialogues), Len(dialogues)), Len(dialogues))

\* The number of utterances of a participant role in one conversation.
CountParticipant_Turns(conversation, participant) ==
    IF \E i \in 1..Len(conversation) :
           conversation[i].participant = participant
    THEN Turns(conversation)
    ELSE 0

CountParticipant(conversation, participant) ==
    Cardinality({i \in 1..Len(conversation) :
                   conversation[i].participant = participant})

\* The number of utterances of a participant role across the whole batch.
TotalOf(dialogues, participant) ==
    SumTo([i \in 1..Len(dialogues) |->
             CountParticipant(dialogues[i].conversation, participant)],
          Len(dialogues))

\* A ratio of two counts, defined as 0 when the denominator is 0.
Ratio(num, den) == IF den = 0 THEN Zero ELSE Fraction(num, den)

UserActRatio(dialogues) ==
    LET user == TotalOf(dialogues, USER)
        agent == TotalOf(dialogues, AGENT)
    IN [k \in {"USER", "AGENT"} |-> IF k = "USER" THEN user ELSE agent]
       @@ [k \in {"USER/AGENT", "AGENT/USER"} |->
             IF k = "USER/AGENT" THEN Ratio(user, agent)
             ELSE Ratio(agent, user)]

\* The labels of the intents that appear in a conversation and are present in
\* reward_config.intents.
CreditedIntents(conversation, reward_config) ==
    { conversation[i].intent[1] :
        i \in {j \in 1..Len(conversation) : conversation[j].intent # None} }
    \cap DOMAIN reward_config.intents

Occurrences(conversation, label) ==
    Cardinality({i \in 1..Len(conversation) :
                   conversation[i].intent = Intent(label)})

\* The points of the credited intents, once per distinct intent, minus the
\* repeat penalty per occurrence beyond the first, minus the cost per turn.
RawReward(conversation, reward_config) ==
    LET credited == CreditedIntents(conversation, reward_config)
    IN SumOver(reward_config.intents, credited)
       - reward_config.repeat_penalty
           * SumOver([l \in credited |-> Occurrences(conversation, l) - 1],
                     credited)
       - reward_config.cost * Turns(conversation)

RecordReward_Unclamped(conversation, reward_config) ==
    RawReward(conversation, reward_config)

\* The reward of one record, clamped to a minimum of 0.
RecordReward(conversation, reward_config) ==
    IF RawReward(conversation, reward_config) < 0 THEN 0
    ELSE RawReward(conversation, reward_config)

\* One entry per record, holding its reward.
Reward(dialogues, reward_config) ==
    [dialogues |->
       [i \in 1..Len(dialogues) |->
          [reward |-> RecordReward(dialogues[i].conversation,
                                   reward_config)]]]

Satisfaction_Reversed(dialogues, classified) ==
    [i \in 1..Len(dialogues) |-> classified[Len(dialogues) + 1 - i]]

\* The outputs of the classifier, collected in record order; classified[i] is
\* what the classifier returned for record i.
Satisfaction(dialogues, classified) ==
    [i \in 1..Len(dialogues) |-> classified[i]]

\* Evaluator(dialogues, reward_config): nothing is computed yet.
Evaluator(dialogues, reward_config) ==
    [dialogues |-> dialogues, reward_config |-> reward_config,
     avg_turns |-> None]

\* What a call returned: the operation, whether it returned or raised, and
\* what it handed back.
Returned(op, outcome, value) ==
    [op |-> op, outcome |-> outcome, value |-> value]

EvaluatorInit ==
    /\ \E dialogues \in Batches, reward_config \in RewardConfigs :
         evaluator = Evaluator(dialogues, reward_config)
    /\ returned = None
    /\ NoExchange
    /\ NoTemplates
    /\ PlatformIdle
    /\ handlers = <<>>
    /\ trackers = <<>>
    /\ calls = <<>>
    /\ born = <<>>

avg_turns_Accumulate ==
    LET avg == IF evaluator.avg_turns = None
               THEN AvgTurns(evaluator.dialogues)
               ELSE Fraction(2 * evaluator.avg_turns[1].num,
                             evaluator.avg_turns[1].den)
    IN /\ returned' =
            Some(Returned("avg_turns", "ok",
                   [memo |-> evaluator.avg_turns # None, avg |-> avg]))
       /\ evaluator' = [evaluator EXCEPT !.avg_turns = Some(avg)]
       /\ UNCHANGED <<trackerVars, platformVars, raceVars, exchangeVars, templateVars>>

\* avg_turns(): computed on the first call and kept; later calls hand back
\* what was kept.
avg_turns ==
    LET avg == IF evaluator.avg_turns = None
               THEN AvgTurns(evaluator.dialogues)
               ELSE evaluator.avg_turns[1]
    IN /\ returned' =
            Some(Returned("avg_turns", "ok",
                   [memo |-> evaluator.avg_turns # None, avg |-> avg]))
       /\ evaluator' = [evaluator EXCEPT !.avg_turns = Some(avg)]
       /\ UNCHANGED <<trackerVars, platformVars, raceVars, exchangeVars, templateVars>>

user_act_ratio ==
    /\ returned' = Some(Returned("user_act_ratio", "ok",
                                 UserActRatio(evaluator.dialogues)))
    /\ UNCHANGED <<evaluator, trackerVars, platformVars, raceVars, exchangeVars, templateVars>>

reward ==
    /\ returned' = Some(Returned("reward", "ok",
                          Reward(evaluator.dialogues,
                                 evaluator.reward_config)))
    /\ UNCHANGED <<evaluator, trackerVars, platformVars, raceVars, exchangeVars, templateVars>>

\* satisfaction(classifier): the classifier scores each record, or its call
\* fails and the failure is surfaced as ClassifierError.
satisfaction(classified, fails) ==
    /\ returned' =
         IF fails
         THEN Some(Returned("satisfaction", "ClassifierError", None))
         ELSE Some(Returned("satisfaction", "ok",
                     [classified |-> classified,
                      scores |-> Satisfaction(evaluator.dialogues,
                                              classified)]))
    /\ UNCHANGED <<evaluator, trackerVars, platformVars, raceVars, exchangeVars, templateVars>>

EvaluatorNext ==
    \/ avg_turns
    \/ user_act_ratio
    \/ reward
    \/ \E classified \in [1..Len(evaluator.dialogues) -> Scores] :
         satisfaction(classified, FALSE)
    \/ satisfaction(None, TRUE)

EvaluatorSpec == EvaluatorInit /\ [][EvaluatorNext]_vars

----------------------------------------------------------------------------
(* The turn exchange of one inbound event: each utterance goes to the        *)
(* dialogue state and to the other participant, whose receive_utterance may *)
(* answer from inside the call.                                              *)

\* What the participants say in an exchange.
UserReply == AnnotatedUtterance("again", USER, None, <<>>)
AgentReply == AnnotatedUtterance("reply", AGENT, None, <<>>)

Other(participant) == IF participant = USER THEN AGENT ELSE USER

\* Where an exchange stands: pc is "deliver" while an utterance is with the
\* participant `to`, depth is the number of nested calls, ended is how the
\* exchange came to its end, inbound is the number of events so far.
Exchange(pc, to, depth, ended, inbound) ==
    [pc |-> pc, to |-> to, depth |-> depth, ended |-> ended,
     inbound |-> inbound]

ExchangeInit ==
    /\ connectors =
         <<ConnectorStart(DialogueConnector(get_new_agent("a", 1),
                                            User("a", 1))).connector>>
    /\ exchange = Some(Exchange("idle", AGENT, 0, "", 0))
    /\ active_connections = <<>>
    /\ annotation_store = {}
    /\ result = Outcome("__init__", "a", "ok")
    /\ nops = 0
    /\ handlers = <<>>
    /\ NoEvaluator
    /\ NoTemplates
    /\ trackers = <<>>
    /\ calls = <<>>
    /\ born = <<>>

\* An inbound event: the user's utterance reaches the connector, which puts
\* it in the dialogue state and hands it to the agent.
exchange_inbound(text) ==
    /\ exchange[1].pc # "deliver"
    /\ exchange[1].inbound < MaxInbound
    /\ IF connectors[1].state = CLOSED
       THEN /\ exchange' = Some(Exchange("done", AGENT, 0,
                                         "SessionClosedError",
                                         exchange[1].inbound + 1))
            /\ UNCHANGED connectors
       ELSE /\ exchange' = Some(Exchange("deliver", AGENT, 1, "",
                                         exchange[1].inbound + 1))
            /\ connectors' =
                 [connectors EXCEPT ![1].dialogue_state =
                    update(@, handle_input(text))]
    /\ UNCHANGED <<active_connections, annotation_store, result, nops,
                   trackerVars, raceVars, evaluatorVars, templateVars>>

\* receive_utterance(utterance) of the participant the utterance is with: it
\* does not respond, or it responds from inside the call, and its utterance
\* goes to the dialogue state and to the other participant in turn.
exchange_receive_utterance(responds) ==
    /\ exchange[1].pc = "deliver"
    /\ IF ~responds
       THEN /\ exchange' = Some([exchange[1] EXCEPT !.pc = "done",
                                     !.ended = "no_response"])
            /\ UNCHANGED connectors
       ELSE IF connectors[1].state = CLOSED
       THEN /\ exchange' = Some([exchange[1] EXCEPT !.pc = "done",
                                     !.ended = "SessionClosedError"])
            /\ UNCHANGED connectors
       ELSE IF exchange[1].depth = MaxChain
       THEN \* no frame is left for the next nested call
            /\ exchange' = Some([exchange[1] EXCEPT !.pc = "done",
                                     !.ended = "RecursionError"])
            /\ UNCHANGED connectors
       ELSE /\ exchange' = Some([exchange[1] EXCEPT
                                     !.to = Other(@), !.depth = @ + 1])
            /\ connectors' =
                 [connectors EXCEPT ![1].dialogue_state =
                    update(@, IF exchange[1].to = AGENT THEN AgentReply
                              ELSE UserReply)]
    /\ UNCHANGED <<active_connections, annotation_store, result, nops,
                   trackerVars, raceVars, evaluatorVars, templateVars>>

\* close() of the connector, from the disconnect of the session.
exchange_close ==
    /\ connectors[1].state # CLOSED
    /\ connectors' = [connectors EXCEPT ![1] = ConnectorClose(@)]
    /\ UNCHANGED <<exchange, active_connections, annotation_store, result,
                   nops, trackerVars, raceVars, evaluatorVars, templateVars>>

ExchangeNext ==
    \/ \E text \in Texts : exchange_inbound(text)
    \/ \E responds \in BOOLEAN : exchange_receive_utterance(responds)
    \/ exchange_close

\* The thread of an event keeps running: a delivered utterance is received.
ExchangeSpec ==
    /\ ExchangeInit
    /\ [][ExchangeNext]_vars
    /\ WF_vars(\E responds \in BOOLEAN : exchange_receive_utterance(responds))

----------------------------------------------------------------------------
(* Utterance templates from annotated training data                         *)
(* (dialoguekit/nlg/template_from_training_data.py). A str is the sequence  *)
(* of its characters.                                                        *)

\* f"{{{placeholder_label}}}"
Placeholder(placeholder_label) == <<"{">> \o placeholder_label \o <<"}">>

\* str.replace(old, new) for a non-empty old: every occurrence, found from
\* the left and not overlapping, is replaced.
RECURSIVE StrReplace(_, _, _)
StrReplace(str, old, new) ==
    IF Len(str) < Len(old) THEN str
    ELSE IF SubSeq(str, 1, Len(old)) = old
         THEN new \o StrReplace(SubSeq(str, Len(old) + 1, Len(str)), old, new)
         ELSE <<Head(str)>> \o StrReplace(Tail(str), old, new)

\* replace_slot_with_placeholder(utterance, slot_values): one replace per
\* slot, in list order, each on the result of the one before.
RECURSIVE replace_slot_with_placeholder(_, _)
replace_slot_with_placeholder(utterance, slot_values) ==
    IF slot_values = <<>> THEN utterance
    ELSE replace_slot_with_placeholder(
             StrReplace(utterance, Head(slot_values)[2],
                        Placeholder(Head(slot_values)[1])),
             Tail(slot_values))

\* An utterance record of a conversation; slot_values is None when the
\* record has no such key, intent is what get("intent") gives.
UtteranceRecord(participant, intent, utterance, slot_values) ==
    [participant |-> participant, intent |-> intent, utterance |-> utterance,
     slot_values |-> slot_values]

\* The utterance records of the annotated dialogues: USER records without
\* slot values, with one slot, with two records that give one template,
\* with a slot value that contains an earlier one, with a value that occurs
\* twice, without intent, and an AGENT record.
UtteranceRecords ==
    { UtteranceRecord(USER, Intent("X"), <<"a", "b">>, None),
      UtteranceRecord(USER, Intent("X"), <<"a", "b">>,
                      Some(<< <<(<<"G">>), (<<"a">>)>> >>)),
      UtteranceRecord(USER, Intent("X"), <<"c", "b">>,
                      Some(<< <<(<<"G">>), (<<"c">>)>> >>)),
      UtteranceRecord(USER, Intent("Y"), <<"a", "b">>,
                      Some(<< <<(<<"G">>), (<<"a">>)>>,
                              <<(<<"T">>), (<<"a", "b">>)>> >>)),
      UtteranceRecord(USER, Intent("Y"), <<"a", "b", "a">>,
                      Some(<< <<(<<"G">>), (<<"a">>)>> >>)),
      UtteranceRecord(USER, None, <<"b", "a">>, Some(<<>>)),
      UtteranceRecord(AGENT, Intent("X"), <<"a", "b">>,
                      Some(<< <<(<<"G">>), (<<"a">>)>> >>)) }

\* The conversations of at most MaxTurns records.
TemplateConversations ==
    UNION { [1..n -> UtteranceRecords] : n \in 0..MaxTurns }

\* An annotated dialogue file: not a file, or a file of dialogues.
AnnotatedDialogueFile(isfile, conversations) ==
    [isfile |-> isfile,
     dialogs |-> [i \in 1..Len(conversations) |->
                    [conversation |-> conversations[i]]]]

\* The template goes to the end of the list of its intent, unless it is
\* in the list already.
AppendTemplate(templates, intent, template) ==
    LET list == IF intent \in DOMAIN templates THEN templates[intent]
                ELSE <<>>
    IN (intent :> IF \E i \in 1..Len(list) : list[i] = template
                  THEN list
                  ELSE Append(list, template)) @@ templates

\* The template of one utterance record.
TemplateOf(utterance_record) ==
    IF utterance_record.slot_values = None
    THEN utterance_record.utterance
    ELSE replace_slot_with_placeholder(utterance_record.utterance,
                                       utterance_record.slot_values[1])

\* The body of the loop over the utterance records of a conversation.
RECURSIVE ExtractConversation(_, _)
ExtractConversation(templates, conversation) ==
    IF conversation = <<>> THEN templates
    ELSE ExtractConversation(
             IF Head(conversation).participant # USER
             THEN templates
             ELSE AppendTemplate(templates, Head(conversation).intent,
                                 TemplateOf(Head(conversation))),
             Tail(conversation))

\* The loop over the dialogues.
RECURSIVE ExtractDialogs(_, _)
ExtractDialogs(templates, dialogs) ==
    IF dialogs = <<>> THEN templates
    ELSE ExtractDialogs(
             ExtractConversation(templates, Head(dialogs).conversation),
             Tail(dialogs))

TemplateInit ==
    /\ \E c \in TemplateConversations, d \in TemplateConversations :
         \/ annotated_dialogs = Some(AnnotatedDialogueFile(FALSE, <<>>))
         \/ annotated_dialogs = Some(AnnotatedDialogueFile(TRUE, <<c>>))
         \/ annotated_dialogs = Some(AnnotatedDialogueFile(TRUE, <<c, d>>))
    /\ response_templates = None
    /\ NoExchange
    /\ NoEvaluator
    /\ PlatformIdle
    /\ handlers = <<>>
    /\ trackers = <<>>
    /\ calls = <<>>
    /\ born = <<>>

\* extract_utterance_template(annotated_dialogue_file)
extract_utterance_template ==
    /\ response_templates' =
         IF ~annotated_dialogs[1].isfile
         THEN Some([outcome |-> "FileNotFoundError", value |-> <<>>])
         ELSE Some([outcome |-> "ok",
                    value |-> ExtractDialogs(<<>>,
                                             annotated_dialogs[1].dialogs)])
    /\ UNCHANGED <<annotated_dialogs, trackerVars, platformVars, raceVars,
                   evaluatorVars, exchangeVars>>

TemplateNext == extract_utterance_template

TemplateSpec == TemplateInit /\ [][TemplateNext]_vars

----------------------------------------------------------------------------
(* The tracker as a state machine. *)

RECURSIVE SumLen(_, _)
SumLen(f, S) ==
    IF S = {} THEN 0
    ELSE LET x == CHOOSE y \in S : TRUE IN Len(f[x]) + SumLen(f, S \ {x})

UpdatesMade == SumLen(calls, DOMAIN calls)

TrackerInit ==
    /\ trackers = <<>>
    /\ calls = <<>>
    /\ born = <<>>
    /\ PlatformIdle
    /\ handlers = <<>>
    /\ NoEvaluator
    /\ NoExchange
    /\ NoTemplates

\* A tracker whose state defaults are shared by all instances: a new
\* tracker starts from what an earlier tracker has accumulated.
NewTracker_SharedDefaults(t) ==
    /\ t \notin DOMAIN trackers
    /\ trackers' = trackers @@
          (t :> IF DOMAIN trackers = {}
                THEN DialogueState
                ELSE trackers[CHOOSE x \in DOMAIN trackers : TRUE])
    /\ calls' = calls @@ (t :> <<>>)
    /\ born' = born @@ (t :> (UpdatesMade > 0))
    /\ UNCHANGED <<platformVars, raceVars, evaluatorVars, exchangeVars, templateVars>>

\* tracker = DialogueStateTracker()
NewTracker(t) ==
    /\ t \notin DOMAIN trackers
    /\ trackers' = trackers @@ (t :> DialogueState)
    /\ calls' = calls @@ (t :> <<>>)
    /\ born' = born @@ (t :> (UpdatesMade > 0))
    /\ UNCHANGED <<platformVars, raceVars, evaluatorVars, exchangeVars, templateVars>>

\* tracker.update(u)
TrackerUpdate(t, u) ==
    /\ t \in DOMAIN trackers
    /\ UpdatesMade < MaxUpdates
    /\ trackers' = [trackers EXCEPT ![t] = update(@, u)]
    /\ calls' = [calls EXCEPT ![t] = Append(@, u)]
    /\ UNCHANGED born
    /\ UNCHANGED <<platformVars, raceVars, evaluatorVars, exchangeVars, templateVars>>

TrackerNext ==
    \/ \E t \in TrackerIds : NewTracker(t)
    \/ \E t \in TrackerIds, u \in Utterances : TrackerUpdate(t, u)

TrackerSpec == TrackerInit /\ [][TrackerNext]_vars

----------------------------------------------------------------------------
(* Properties of the tracker. *)

IsPrefix(s, t) == Len(s) <= Len(t) /\ SubSeq(t, 1, Len(s)) = s

\* The number of USER-tagged entries of a sequence of utterances.
UserCount(h) == Cardinality({i \in 1..Len(h) : h[i].participant = USER})

\* The annotations carried by the USER utterances of a sequence, in order.
RECURSIVE UserAnnotations(_)
UserAnnotations(h) ==
    IF h = <<>> THEN <<>>
    ELSE (IF Head(h).participant = USER THEN Head(h).annotations ELSE <<>>)
         \o UserAnnotations(Tail(h))

AnnotationsOfSlot(h, s) ==
    SelectSeq(UserAnnotations(h), LAMBDA a : a.slot = s)

\* slots.get(s, []): what a slot holds, a missing key holding nothing.
SlotList(slots, s) == IF s \in DOMAIN slots THEN slots[s] ELSE <<>>

\* The positions of the USER utterances of a sequence.
UserPositions(h) == {i \in 1..Len(h) : h[i].participant = USER}
Max(S) == CHOOSE x \in S : \A y \in S : y <= x

\* C1: in every reachable state, turn_count of a tracker equals the number
\* of USER-tagged entries in its history.
C1_TurnCountIsUserEntries ==
    \A t \in DOMAIN trackers :
        trackers[t].turn_count = UserCount(trackers[t].history)

C1_Witness ==
    \E t \in DOMAIN trackers :
        /\ trackers[t].turn_count = 2
        /\ Len(trackers[t].history) = 3
        /\ trackers[t].history[2].participant = AGENT

\* C2: history is append-only in call order: after N update calls it holds
\* exactly the N utterances passed, the i-th entry being the i-th call's
\* utterance, and every step keeps the earlier history as a prefix.
C2_HistoryAppendOnly ==
    /\ [](\A t \in DOMAIN trackers :
            /\ Len(trackers[t].history) = Len(calls[t])
            /\ \A i \in 1..Len(calls[t]) : trackers[t].history[i] = calls[t][i])
    /\ [][\A t \in DOMAIN trackers :
            IsPrefix(trackers[t].history, trackers'[t].history)]_vars

C2_Witness ==
    \E t \in DOMAIN trackers :
        /\ Len(calls[t]) = 3
        /\ calls[t][1] # calls[t][2]
        /\ calls[t][2] # calls[t][3]
        /\ trackers[t].history = calls[t]

\* C3: for every slot name s, slots[s] is exactly the sequence of the
\* annotations with slot s carried by the USER utterances, in arrival order
\* and with repetitions; a key exists only for a slot that was annotated, and
\* no step removes a key or changes what a slot already holds.
C3_SlotsAccumulate ==
    /\ [](\A t \in DOMAIN trackers :
            /\ DOMAIN trackers[t].slots \subseteq SlotNames
            /\ \A s \in SlotNames :
                 /\ SlotList(trackers[t].slots, s) = AnnotationsOfSlot(calls[t], s)
                 /\ s \in DOMAIN trackers[t].slots
                      <=> AnnotationsOfSlot(calls[t], s) # <<>>)
    /\ [][\A t \in DOMAIN trackers :
            \A s \in DOMAIN trackers[t].slots :
                /\ s \in DOMAIN trackers'[t].slots
                /\ IsPrefix(trackers[t].slots[s], trackers'[t].slots[s])]_vars

C3_Witness ==
    \E t \in DOMAIN trackers :
        /\ "name" \in DOMAIN trackers[t].slots
        /\ trackers[t].slots["name"] =
             <<Annotation("name", "John"), Annotation("name", "Mary"),
               Annotation("name", "John")>>
        /\ \E i \in 1..Len(calls[t]) :
             calls[t][i].participant = AGENT /\ calls[t][i].annotations # <<>>

\* C4: an update with an utterance whose participant is not USER appends the
\* utterance to history and leaves last_user_intent, slots and turn_count as
\* they were, whatever intent and annotations the utterance carries.
C4_AgentUpdateOnlyAppends ==
    [][\A t \in DOMAIN trackers : \A u \in Utterances :
          (calls'[t] = Append(calls[t], u) /\ u.participant # USER)
          => /\ trackers'[t].history = Append(trackers[t].history, u)
             /\ trackers'[t].last_user_intent = trackers[t].last_user_intent
             /\ trackers'[t].slots = trackers[t].slots
             /\ trackers'[t].turn_count = trackers[t].turn_count]_vars

C4_Witness ==
    \E t \in DOMAIN trackers :
        /\ Len(calls[t]) = 2
        /\ calls[t][1].participant = USER
        /\ calls[t][2].participant = AGENT
        /\ calls[t][2].intent = Intent("offer_help")
        /\ calls[t][2].annotations # <<>>
        /\ trackers[t].last_user_intent = Intent("greeting")
        /\ trackers[t].turn_count = 1
        /\ trackers[t].history[2] = calls[t][2]

\* C5: last_user_intent is the intent of the most recent USER utterance
\* passed to update, the absent intent included; it is absent only when no
\* USER utterance was passed or the latest one carried no intent.
C5_LastUserIntent ==
    \A t \in DOMAIN trackers :
        LET users == UserPositions(calls[t]) IN
        /\ users = {} => trackers[t].last_user_intent = None
        /\ users # {} =>
             trackers[t].last_user_intent = calls[t][Max(users)].intent

C5_Witness ==
    \E t \in DOMAIN trackers :
        /\ Len(calls[t]) = 3
        /\ calls[t][1].participant = USER /\ calls[t][1].intent # None
        /\ calls[t][2].participant = USER /\ calls[t][2].intent = None
        /\ calls[t][3].participant = AGENT /\ calls[t][3].intent # None
        /\ trackers[t].last_user_intent = None

\* C6: a tracker is constructed with an empty dialogue state whatever was
\* applied to other trackers before, and the state of a constructed tracker
\* changes only in a step that is an update call on that tracker.
C6_FreshStateOnlyUpdated ==
    [][/\ \A t \in DOMAIN trackers' \ DOMAIN trackers :
            /\ trackers'[t].history = <<>>
            /\ trackers'[t].last_user_intent = None
            /\ trackers'[t].slots = <<>>
            /\ trackers'[t].turn_count = 0
       /\ \A t \in DOMAIN trackers :
            /\ t \in DOMAIN trackers'
            /\ trackers'[t] # trackers[t]
                 => \E u \in Utterances : calls'[t] = Append(calls[t], u)]_vars

C6_Witness ==
    \E t \in DOMAIN trackers, o \in DOMAIN trackers :
        /\ born[t]
        /\ calls[t] = <<>>
        /\ trackers[t].history = <<>>
        /\ trackers[t].turn_count = 0
        /\ trackers[o].turn_count > 0
        /\ trackers[o].slots # <<>>

----------------------------------------------------------------------------
(* Properties of the platform's session table. *)

\* C7: connect on an id that is already registered fails with
\* DuplicateSessionError and leaves the session table and the connectors as
\* they were (nothing replaced, nothing restarted).
C7_DuplicateConnectRejected ==
    [][(result'.op = "connect" /\ result'.id \in DOMAIN active_connections)
       => /\ result'.outcome = "DuplicateSessionError"
          /\ active_connections' = active_connections
          /\ connectors' = connectors]_vars

\* C8: disconnect of an id that is not registered fails with
\* UnknownSessionError (no other fault, no silent success) and leaves the
\* session table as it was.
C8_UnknownDisconnectRejected ==
    [][(result'.op = "disconnect" /\ result'.id \notin DOMAIN active_connections)
       => /\ result'.outcome = "UnknownSessionError"
          /\ active_connections' = active_connections]_vars

\* C9: message and feedback for an id that is not registered fail with
\* UnknownSessionError and change no session's state.
C9_UnknownMessageRejected ==
    [][(/\ result'.op \in {"message", "feedback"}
        /\ result'.id \notin DOMAIN active_connections)
       => /\ result'.outcome = "UnknownSessionError"
          /\ active_connections' = active_connections
          /\ connectors' = connectors
          /\ annotation_store' = annotation_store]_vars

\* C10: after a connect that failed at any step (constructing the agent or
\* the connector, or starting the connector), its id is not in the session
\* table.
C10_FailedConnectLeavesNoEntry ==
    (result.op = "connect" /\ result.outcome # "ok")
    => result.id \notin DOMAIN active_connections

\* C11: the session table follows connect and disconnect: a successful
\* connect registers a started connector under its id, a successful
\* disconnect removes the id and leaves its connector CLOSED, and any other
\* step (a failed connect or disconnect included) leaves the set of
\* registered ids as it was, so the table holds exactly the ids whose most
\* recent successful operation was connect.
C11_SessionLifecycle ==
    [][LET id == result'.id
           connected == result'.op = "connect" /\ result'.outcome = "ok"
           disconnected == result'.op = "disconnect" /\ result'.outcome = "ok"
       IN  /\ connected =>
                /\ DOMAIN active_connections' = DOMAIN active_connections \cup {id}
                /\ connectors'[active_connections'[id]].state = ACTIVE
           /\ disconnected =>
                /\ id \in DOMAIN active_connections
                /\ DOMAIN active_connections' = DOMAIN active_connections \ {id}
                /\ connectors'[active_connections[id]].state = CLOSED
           /\ ~(connected \/ disconnected) =>
                DOMAIN active_connections' = DOMAIN active_connections]_vars

\* C16: feedback for a registered session leaves the session table and
\* every dialogue state (that session's included) as they were; the rating
\* is added to the annotation store and nothing else changes.
C16_FeedbackLeavesDialogueState ==
    [][(result'.op = "feedback" /\ result'.id \in DOMAIN active_connections)
       => /\ active_connections' = active_connections
          /\ connectors' = connectors
          /\ annotation_store \subseteq annotation_store'
          /\ \A f \in annotation_store' \ annotation_store :
               f[1] = active_connections[result'.id]]_vars

C16_Witness ==
    /\ result.op = "feedback"
    /\ result.outcome = "ok"
    /\ result.id \in DOMAIN active_connections
    /\ <<active_connections[result.id], "u1", 1>> \in annotation_store
    /\ connectors[active_connections[result.id]].dialogue_state.turn_count = 1
    /\ Len(connectors[active_connections[result.id]].dialogue_state.history) >= 2

----------------------------------------------------------------------------
(* Properties of the connector's state machine. *)

\* C12: close() succeeds from every state (CREATED, ACTIVE, CLOSED) and
\* leaves the connector CLOSED; on a connector that is CLOSED already it
\* does not fail and changes nothing.
C12_CloseIdempotent ==
    [][result'.op = "close"
       => /\ result'.outcome = "ok"
          /\ connectors'[1].state = CLOSED
          /\ connectors[1].state = CLOSED => connectors' = connectors]_vars

\* Two operations were applied, the last one a close, and neither the
\* dialogue state nor the store was written: both were close().
C12_Witness ==
    /\ nops = 2
    /\ result.op = "close"
    /\ result.outcome = "ok"
    /\ connectors[1].state = CLOSED
    /\ connectors[1].dialogue_state = DialogueState
    /\ annotation_store = {}

\* C13: CLOSED is terminal: a connector that is CLOSED stays CLOSED, and
\* every operation other than close applied to it (start, an inbound
\* utterance, feedback) fails with SessionClosedError and changes nothing.
C13_ClosedIsTerminal ==
    [][connectors[1].state = CLOSED
       => /\ connectors'[1].state = CLOSED
          /\ result'.op # "close"
               => /\ result'.outcome = "SessionClosedError"
                  /\ connectors' = connectors
                  /\ annotation_store' = annotation_store]_vars

C13_Witness ==
    /\ result.op = "utterance"
    /\ result.outcome = "SessionClosedError"
    /\ connectors[1].state = CLOSED
    /\ connectors[1].dialogue_state.turn_count = 1

----------------------------------------------------------------------------
(* Properties of concurrent events. *)

\* The entries of a history produced by one event are adjacent: the agent's
\* reply to a message directly follows that message.
NotInterleaved(history) ==
    \A i \in 1..Len(history), h \in DOMAIN handlers :
        history[i].text = ReplyText(h)
        => i > 1 /\ history[i - 1].text = MessageText(h)

\* C14: the events of one session are processed one at a time (a second
\* event is queued or rejected while the first produces its response), so
\* in no session's history are the entries of two events interleaved.
C14_EventsNotInterleaved ==
    \A ref \in DOMAIN connectors :
        NotInterleaved(connectors[ref].dialogue_state.history)

\* C15: a dialogue state is updated only for a session that is whole: its
\* connector is registered in the session table (not taken out by a
\* disconnect in progress) and is not CLOSED.
C15_NoUpdateOfRemovedSession ==
    [][\A ref \in DOMAIN connectors :
          connectors'[ref].dialogue_state # connectors[ref].dialogue_state
          => /\ connectors[ref].state # CLOSED
             /\ \E id \in DOMAIN active_connections :
                  active_connections[id] = ref]_vars

----------------------------------------------------------------------------
(* Properties of the Evaluator. *)

\* What the last call handed back, when it was op and it returned.
Gave(op) ==
    /\ returned # None
    /\ returned[1].op = op
    /\ returned[1].outcome = "ok"

\* C17: reward() returns one entry per dialogue record, and the reward of
\* every record is at least 0, whatever the record and the configuration.
C17_RewardNeverNegative ==
    Gave("reward")
    => /\ Len(returned[1].value.dialogues) = Len(evaluator.dialogues)
       /\ \A i \in 1..Len(evaluator.dialogues) :
            returned[1].value.dialogues[i].reward >= 0

\* reward() returned for a batch with a record whose penalties and cost
\* exceed its points and a record that keeps a positive reward.
C17_Witness ==
    /\ Gave("reward")
    /\ \E i, j \in 1..Len(evaluator.dialogues) :
         /\ RawReward(evaluator.dialogues[i].conversation,
                      evaluator.reward_config) < 0
         /\ returned[1].value.dialogues[i].reward = 0
         /\ returned[1].value.dialogues[j].reward > 0

\* C18: avg_turns() returns the mean over the records of the per-record turn
\* count on every call, so a repeated call returns the identical value, and
\* no call modifies the batch.
C18_AvgTurnsPure ==
    /\ [](Gave("avg_turns")
          => returned[1].value.avg.num * Len(evaluator.dialogues)
             = returned[1].value.avg.den
               * SumTo(TurnCounts(evaluator.dialogues),
                       Len(evaluator.dialogues)))
    /\ [][/\ evaluator'.dialogues = evaluator.dialogues
          /\ Gave("avg_turns") /\ Gave("avg_turns")'
             => returned'[1].value.avg = returned[1].value.avg]_vars

\* A repeated avg_turns() call answered from the kept value, on records with
\* 1 and 3 turns whose mean is 2.
C18_Witness ==
    /\ Gave("avg_turns")
    /\ returned[1].value.memo
    /\ Len(evaluator.dialogues) = 2
    /\ Turns(evaluator.dialogues[1].conversation) = 1
    /\ Turns(evaluator.dialogues[2].conversation) = 3
    /\ returned[1].value.avg = Fraction(2, 1)

\* The number of utterances of a batch.
RECURSIVE TotalUtterances(_)
TotalUtterances(dialogues) ==
    IF dialogues = <<>> THEN 0
    ELSE Len(Head(dialogues).conversation) + TotalUtterances(Tail(dialogues))

\* C19: user_act_ratio() returns a mapping with the keys USER, AGENT,
\* USER/AGENT and AGENT/USER in which USER + AGENT is the total number of
\* utterances of the batch and a ratio is 0 when its denominator count is 0.
C19_UserActRatio ==
    Gave("user_act_ratio")
    => LET stats == returned[1].value
       IN /\ {"USER", "AGENT", "USER/AGENT", "AGENT/USER"}
               \subseteq DOMAIN stats
          /\ stats["USER"] + stats["AGENT"]
               = TotalUtterances(evaluator.dialogues)
          /\ stats["AGENT"] = 0 => stats["USER/AGENT"] = Zero
          /\ stats["USER"] = 0 => stats["AGENT/USER"] = Zero

\* user_act_ratio() returned for a batch without AGENT utterances.
C19_Witness ==
    /\ Gave("user_act_ratio")
    /\ returned[1].value["AGENT"] = 0
    /\ returned[1].value["USER"] = 2
    /\ returned[1].value["USER/AGENT"] = Zero

----------------------------------------------------------------------------
(* Properties of sessions over sequences of transport events. *)

\* The number of times the agent's opening utterance is in a history.
OpeningCount(history) ==
    Cardinality({i \in 1..Len(history) : history[i] = OpeningUtterance})

\* C21: the connector of a session is started exactly once: start() is
\* applied only to a connector in state CREATED, and the history of no
\* connector holds the agent's opening utterance more than once.
C21_StartedOnce ==
    /\ [](\A ref \in DOMAIN connectors :
            OpeningCount(connectors[ref].dialogue_state.history) <= 1)
    /\ [][result'.op = "start_conversation"
          /\ result'.id \in DOMAIN active_connections
          => connectors[active_connections[result'.id]].state = CREATED]_vars

\* C22: no orphaned live connector: every connector connect created is the
\* one stored in the session table under the id of its user, or is CLOSED.
C22_NoOrphanedConnector ==
    \A ref \in DOMAIN connectors :
        \/ connectors[ref].state = CLOSED
        \/ /\ connectors[ref].user.id \in DOMAIN active_connections
           /\ active_connections[connectors[ref].user.id] = ref

\* C23: session isolation: an operation for one id changes neither the
\* table entry nor the connector (its state, agent, user and dialogue state)
\* of a different registered id, and no two connectors share an agent or a
\* user object.
C23_SessionIsolation ==
    /\ [](\A r1, r2 \in DOMAIN connectors :
            r1 # r2 => /\ connectors[r1].agent.obj # connectors[r2].agent.obj
                       /\ connectors[r1].user.obj # connectors[r2].user.obj)
    /\ [][\A other \in DOMAIN active_connections :
            other # result'.id
            => /\ other \in DOMAIN active_connections'
               /\ active_connections'[other] = active_connections[other]
               /\ connectors'[active_connections[other]]
                    = connectors[active_connections[other]]]_vars

\* Two sessions are registered, each with a started connector of its own,
\* and the last operation was a message that session "a" heard.
C23_Witness ==
    /\ DOMAIN active_connections = {"a", "b"}
    /\ active_connections["a"] # active_connections["b"]
    /\ result = Outcome("message", "a", "ok")
    /\ connectors[active_connections["a"]].dialogue_state.turn_count = 1
    /\ connectors[active_connections["b"]].dialogue_state.turn_count = 0
    /\ connectors[active_connections["b"]].state = ACTIVE

\* C24: the turn exchange of one inbound event terminates: its processing
\* always completes, and it ends because a participant did not respond or
\* because the connector is closed.
C24_ExchangeTerminates ==
    /\ [](exchange[1].pc = "done"
          => exchange[1].ended \in {"no_response", "SessionClosedError"})
    /\ (exchange[1].pc = "deliver" ~> exchange[1].pc = "done")

----------------------------------------------------------------------------
(* Properties of template extraction. *)

\* The USER utterance records of a file, in the order of the file.
RECURSIVE UserRecords(_)
UserRecords(dialogs) ==
    IF dialogs = <<>> THEN <<>>
    ELSE SelectSeq(Head(dialogs).conversation,
                   LAMBDA rec : rec.participant = USER)
         \o UserRecords(Tail(dialogs))

\* old occurs in str.
Occurs(old, str) ==
    \E i \in 1..(Len(str) - Len(old) + 1) :
        SubSeq(str, i, i + Len(old) - 1) = old

\* C25 (keys, lists): the keys are exactly the intents of the USER records;
\* no list holds a template twice; a list holds the templates of the records
\* of its intent in the order of their first occurrence.
C25_KeysAndLists ==
    response_templates # None /\ response_templates[1].outcome = "ok"
    => LET templates == response_templates[1].value
           records == UserRecords(annotated_dialogs[1].dialogs)
       IN /\ DOMAIN templates
               = {records[i].intent : i \in 1..Len(records)}
          /\ \A k \in DOMAIN templates :
               LET of_k == SelectSeq(records, LAMBDA rec : rec.intent = k)
                   First(tp) == CHOOSE i \in 1..Len(of_k) :
                                  /\ TemplateOf(of_k[i]) = tp
                                  /\ \A j \in 1..(i - 1) :
                                       TemplateOf(of_k[j]) # tp
               IN /\ \A i, j \in 1..Len(templates[k]) :
                       i # j => templates[k][i] # templates[k][j]
                  /\ {templates[k][i] : i \in 1..Len(templates[k])}
                       = {TemplateOf(of_k[i]) : i \in 1..Len(of_k)}
                  /\ \A i, j \in 1..Len(templates[k]) :
                       i < j => First(templates[k][i])
                                < First(templates[k][j])

\* C25 (placeholders): the template of a USER record is in the list of its
\* intent, and it holds the placeholder of every slot whose value is in the
\* utterance.
C25_ValuesReplaced ==
    response_templates # None /\ response_templates[1].outcome = "ok"
    => LET templates == response_templates[1].value
           records == UserRecords(annotated_dialogs[1].dialogs)
       IN \A r \in 1..Len(records) :
            /\ records[r].intent \in DOMAIN templates
            /\ \E i \in 1..Len(templates[records[r].intent]) :
                 templates[records[r].intent][i] = TemplateOf(records[r])
            /\ records[r].slot_values # None
               => \A s \in 1..Len(records[r].slot_values[1]) :
                    LET slot == records[r].slot_values[1][s] IN
                    Occurs(slot[2], records[r].utterance)
                    => Occurs(Placeholder(slot[1]), TemplateOf(records[r]))

\* C25: extract_utterance_template returns a mapping whose keys are exactly
\* the intents of the USER turns, where each list has no duplicate, is in
\* first-occurrence order and holds the USER utterances with every literal
\* slot value replaced by its placeholder; the same file always gives the
\* same result.
C25_Templates ==
    /\ [](C25_KeysAndLists /\ C25_ValuesReplaced)
    /\ [][response_templates # None
          => response_templates' = response_templates]_vars

====
